---------------------------- MODULE Spec2Model ----------------------------
(***************************************************************************)
(* A model of the Recipe AI Assistant (src/app.py): the Streamlit script   *)
(* main(), its session state, the retry loop safe_ai_request, the response *)
(* parser get_smart_recipes and the template selection                     *)
(* get_fallback_recipes.                                                   *)
(*                                                                         *)
(* Texts are TLA+ strings and every text operation of the code (strip,     *)
(* lower, split, join, the substring test, re.sub, re.search,                *)
(* json.loads) is computed character by character.  Python values that the *)
(* code passes around (the parsed JSON, the recipe lists) are tagged       *)
(* records: [t |-> "list", v |-> <<...>>], [t |-> "dict", v |-> f],        *)
(* [t |-> "str", v |-> "..."], [t |-> "bool", v |-> b], [t |-> "none"].    *)
(***************************************************************************)
EXTENDS Integers, Sequences, FiniteSets, TLC

VARIABLES
    env,               \* the process environment: GEMINI_API_KEY, and whether genai setup raises
    model,             \* st.cache_resource entry of setup_gemini: "uncached", "None", "GenerativeModel"
    session_state,     \* st.session_state: a function from attribute names to values
    ingredients_input, \* the text area's value
    use_ai,            \* the toggle's value
    pc,                \* where the running script (or function under study) stands
    button,            \* the button that returned True in the current script run
    sidebar,           \* elements shown in the sidebar by the current run
    panel,             \* elements shown in the main panel by the current run
    ingredients_list,  \* main's local ingredients_list / the functions' argument
    req,               \* safe_ai_request's frame: max_retries, attempt, calls, sleeps, messages, result
    recipes            \* get_smart_recipes' / get_fallback_recipes' return value and return site

vars == <<env, model, session_state, ingredients_input, use_ai, pc, button,
          sidebar, panel, ingredients_list, req, recipes>>

---------------------------------------------------------------------------
(* Characters and the str methods the code uses.                           *)

Ch(s, i) == IF i >= 1 /\ i <= Len(s) THEN SubSeq(s, i, i) ELSE ""

Whitespace == {" ", "\n", "\t", "\r"}

UpperChars == "ABCDEFGHIJKLMNOPQRSTUVWXYZ"

LowerChars == "abcdefghijklmnopqrstuvwxyz"

UpperSet == {Ch(UpperChars, i) : i \in 1..Len(UpperChars)}

\* The lower-case letter of each upper-case one.
LowerOf ==
    [c \in UpperSet |-> Ch(LowerChars, CHOOSE i \in 1..Len(UpperChars) : Ch(UpperChars, i) = c)]

LowerChar(c) == IF c \in UpperSet THEN LowerOf[c] ELSE c

\* s.lower(), computed half by half.
RECURSIVE Lower(_)
Lower(s) ==
    IF Len(s) <= 1 THEN LowerChar(s)
    ELSE Lower(SubSeq(s, 1, Len(s) \div 2)) \o Lower(SubSeq(s, Len(s) \div 2 + 1, Len(s)))

\* First index >= i holding a non-whitespace character (Len(s)+1 when none).
SkipWs(s, i) ==
    IF \E k \in i..Len(s) : Ch(s, k) \notin Whitespace
    THEN CHOOSE k \in i..Len(s) :
            Ch(s, k) \notin Whitespace /\ \A j \in i..(k - 1) : Ch(s, j) \in Whitespace
    ELSE IF i > Len(s) THEN i ELSE Len(s) + 1

\* Last index <= j holding a non-whitespace character (0 when none).
SkipWsBack(s, j) ==
    IF \E k \in 1..j : Ch(s, k) \notin Whitespace
    THEN CHOOSE k \in 1..j :
            Ch(s, k) \notin Whitespace /\ \A m \in (k + 1)..j : Ch(s, m) \in Whitespace
    ELSE IF j < 1 THEN j ELSE 0

\* s.strip()
Strip(s) ==
    LET a == SkipWs(s, 1)
        b == SkipWsBack(s, Len(s))
    IN  IF a > b THEN "" ELSE SubSeq(s, a, b)

\* Python's (sub in s).
Contains(s, sub) ==
    \E i \in 1..(Len(s) - Len(sub) + 1) : SubSeq(s, i, i + Len(sub) - 1) = sub

StartsWithAt(s, i, pre) ==
    /\ i >= 1
    /\ i + Len(pre) - 1 <= Len(s)
    /\ SubSeq(s, i, i + Len(pre) - 1) = pre

\* First index >= i holding character c (0 when none).
IndexFrom(s, c, i) ==
    IF \E k \in i..Len(s) : Ch(s, k) = c
    THEN CHOOSE k \in i..Len(s) : Ch(s, k) = c /\ \A j \in i..(k - 1) : Ch(s, j) # c
    ELSE 0

\* Last index <= j holding character c (0 when none).
LastIndexFrom(s, c, j) ==
    IF \E k \in 1..j : Ch(s, k) = c
    THEN CHOOSE k \in 1..j : Ch(s, k) = c /\ \A m \in (k + 1)..j : Ch(s, m) # c
    ELSE 0

\* s.split(c) for a one-character separator.
RECURSIVE Split(_, _)
Split(s, c) ==
    LET k == IndexFrom(s, c, 1)
    IN  IF k = 0 THEN <<s>>
        ELSE <<SubSeq(s, 1, k - 1)>> \o Split(SubSeq(s, k + 1, Len(s)), c)

\* sep.join(parts)
RECURSIVE Join(_, _)
Join(parts, sep) ==
    IF parts = <<>> THEN ""
    ELSE IF Len(parts) = 1 THEN parts[1]
    ELSE parts[1] \o sep \o Join(Tail(parts), sep)

Take(seq, n) == SubSeq(seq, 1, IF Len(seq) < n THEN Len(seq) ELSE n)

---------------------------------------------------------------------------
(* Python values.                                                          *)

PyNone == [t |-> "none"]

PyStr(s) == [t |-> "str", v |-> s]

PyBool(b) == [t |-> "bool", v |-> b]

PyInt(n) == [t |-> "int", v |-> n]

PyList(seq) == [t |-> "list", v |-> seq]

PyDict(f) == [t |-> "dict", v |-> f]

EmptyDict == PyDict(<<>>)

\* bool(x): None, "", False, 0, [] and {} are falsy.
Truthy(x) ==
    CASE x.t = "none" -> FALSE
      [] x.t = "str"  -> x.v # ""
      [] x.t = "bool" -> x.v
      [] x.t = "int"  -> x.v # 0
      [] x.t = "list" -> Len(x.v) > 0
      [] x.t = "dict" -> DOMAIN x.v # {}

StrList(seq) == PyList([i \in 1..Len(seq) |-> PyStr(seq[i])])

---------------------------------------------------------------------------
(* json.loads, for the JSON of objects, arrays, strings without escapes,   *)
(* unsigned integers and the literals null, true, false.  A parse result   *)
(* is [ok, val, pos]: whether a value was read, the value, and the index   *)
(* after it.                                                               *)

ParseFail(i) == [ok |-> FALSE, val |-> PyNone, pos |-> i]

ParseOk(v, i) == [ok |-> TRUE, val |-> v, pos |-> i]

\* Index of the quote closing a string whose body starts at j (0: unterminated,
\* or a control character or an escape inside it).
ScanString(s, j) ==
    LET q == IndexFrom(s, "\"", j)
    IN  IF q = 0 THEN 0
        ELSE IF \E k \in j..(q - 1) : Ch(s, k) \in {"\n", "\t", "\r", "\\"} THEN 0
        ELSE q

ParseString(s, i) ==
    LET j == ScanString(s, i + 1)
    IN  IF j = 0 THEN ParseFail(i) ELSE ParseOk(PyStr(SubSeq(s, i + 1, j - 1)), j + 1)

Digits == "0123456789"

IsDigit(c) == \E d \in 1..Len(Digits) : Ch(Digits, d) = c

DigitValue(c) == (CHOOSE d \in 1..Len(Digits) : Ch(Digits, d) = c) - 1

\* Index after the run of digits that starts at i.
SkipDigits(s, i) ==
    IF \E k \in i..Len(s) : ~IsDigit(Ch(s, k))
    THEN CHOOSE k \in i..Len(s) :
            ~IsDigit(Ch(s, k)) /\ \A j \in i..(k - 1) : IsDigit(Ch(s, j))
    ELSE IF i > Len(s) THEN i ELSE Len(s) + 1

RECURSIVE DecimalValue(_)
DecimalValue(digits) ==
    IF digits = "" THEN 0
    ELSE 10 * DecimalValue(SubSeq(digits, 1, Len(digits) - 1))
         + DigitValue(Ch(digits, Len(digits)))

\* An integer at i: a single 0, or a run of digits that does not start with 0.
ParseNumber(s, i) ==
    LET j == IF Ch(s, i) = "0" THEN i + 1 ELSE SkipDigits(s, i)
    IN  ParseOk(PyInt(DecimalValue(SubSeq(s, i, j - 1))), j)

RECURSIVE ParseValue(_, _)
RECURSIVE ParseMembers(_, _, _)
RECURSIVE ParseElements(_, _, _)

ParseValue(s, i) ==
    LET c == Ch(s, i)
        n == SkipWs(s, i + 1)
    IN  CASE c = "{" -> IF Ch(s, n) = "}" THEN ParseOk(EmptyDict, n + 1)
                        ELSE ParseMembers(s, n, <<>>)
          [] c = "[" -> IF Ch(s, n) = "]" THEN ParseOk(PyList(<<>>), n + 1)
                        ELSE ParseElements(s, n, <<>>)
          [] c = "\"" -> ParseString(s, i)
          [] OTHER -> IF StartsWithAt(s, i, "null") THEN ParseOk(PyNone, i + 4)
                      ELSE IF StartsWithAt(s, i, "true") THEN ParseOk(PyBool(TRUE), i + 4)
                      ELSE IF StartsWithAt(s, i, "false") THEN ParseOk(PyBool(FALSE), i + 5)
                      ELSE IF IsDigit(c) THEN ParseNumber(s, i)
                      ELSE ParseFail(i)

\* The members of an object from the key at i on; acc holds the pairs read so far
\* (a repeated key keeps its last value).
ParseMembers(s, i, acc) ==
    IF Ch(s, i) # "\"" THEN ParseFail(i)
    ELSE LET k == ParseString(s, i)
             colon == SkipWs(s, k.pos)
             val == ParseValue(s, SkipWs(s, colon + 1))
             after == SkipWs(s, val.pos)
             acc2 == (k.val.v :> val.val) @@ acc
         IN  IF ~k.ok \/ Ch(s, colon) # ":" THEN ParseFail(i)
             ELSE IF ~val.ok THEN ParseFail(i)
             ELSE IF Ch(s, after) = "}" THEN ParseOk(PyDict(acc2), after + 1)
             ELSE IF Ch(s, after) = "," THEN ParseMembers(s, SkipWs(s, after + 1), acc2)
             ELSE ParseFail(i)

\* The elements of an array from the value at i on.
ParseElements(s, i, acc) ==
    LET val == ParseValue(s, i)
        after == SkipWs(s, val.pos)
        acc2 == Append(acc, val.val)
    IN  IF ~val.ok THEN ParseFail(i)
        ELSE IF Ch(s, after) = "]" THEN ParseOk(PyList(acc2), after + 1)
        ELSE IF Ch(s, after) = "," THEN ParseElements(s, SkipWs(s, after + 1), acc2)
        ELSE ParseFail(i)

\* json.loads(s): [ok |-> FALSE] stands for JSONDecodeError.
JsonLoads(s) ==
    LET r == ParseValue(s, SkipWs(s, 1))
    IN  IF r.ok /\ SkipWs(s, r.pos) = Len(s) + 1
        THEN [ok |-> TRUE, val |-> r.val]
        ELSE [ok |-> FALSE, val |-> PyNone]

\* The grave accent of a markdown code fence. A TLA+ string literal cannot hold
\* that character, so the modelled texts write it as a circumflex, which they
\* use for nothing else.
Tick == "^"

Fence == Tick \o Tick \o Tick

\* re.sub(r'<fence>json\s*|\s*<fence>', '', s): scanning from i, the leftmost
\* match is removed, the first alternative tried first.
FenceAt(s, i) ==
    StartsWithAt(s, i, Fence \o "json") \/ StartsWithAt(s, SkipWs(s, i), Fence)

\* Index after the match that starts at i.
FenceEnd(s, i) ==
    IF StartsWithAt(s, i, Fence \o "json")
    THEN SkipWs(s, i + Len(Fence \o "json"))
    ELSE SkipWs(s, i) + Len(Fence)

RECURSIVE RemoveFences(_, _)
RemoveFences(s, i) ==
    IF \E k \in i..Len(s) : FenceAt(s, k)
    THEN LET first == CHOOSE k \in i..Len(s) :
                         FenceAt(s, k) /\ \A j \in i..(k - 1) : ~FenceAt(s, j)
         IN  SubSeq(s, i, first - 1) \o RemoveFences(s, FenceEnd(s, first))
    ELSE IF i > Len(s) THEN "" ELSE SubSeq(s, i, Len(s))

\* The search with a lazy quantifier: the span ends at the first "}" after the
\* first "{".
JsonMatch_NonGreedy(s) ==
    LET i == IndexFrom(s, "{", 1)
        j == IF i > 0 THEN IndexFrom(s, "}", i + 1) ELSE 0
    IN  IF i > 0 /\ j > i
        THEN [found |-> TRUE, group |-> SubSeq(s, i, j)]
        ELSE [found |-> FALSE, group |-> ""]

\* re.search(r'\{.*\}', s, re.DOTALL): the span from the first "{" to the last "}".
JsonMatch(s) ==
    LET i == IndexFrom(s, "{", 1)
        j == LastIndexFrom(s, "}", Len(s))
    IN  IF i > 0 /\ j > i
        THEN [found |-> TRUE, group |-> SubSeq(s, i, j)]
        ELSE [found |-> FALSE, group |-> ""]

---------------------------------------------------------------------------
(* get_fallback_recipes                                                    *)

Recipe(name, ingredients, steps, time, effort) ==
    PyDict([name |-> PyStr(name), ingredients |-> StrList(ingredients),
            steps |-> StrList(steps), time |-> PyStr(time), effort |-> PyStr(effort)])

IsUsable(ing) == Len(ing) > 2

\* usable_ings = [ing for ing in ingredients_list if len(ing) > 2]
UsableIngs(ings) == SelectSeq(ings, IsUsable)

StirFryKeywords == {"chicken", "beef", "tofu", "vegetable", "broccoli", "carrot"}

FreshKeywords == {"lettuce", "tomato", "cucumber", "onion", "spinach"}

PastaKeywords == {"pasta", "noodle", "spaghetti"}

\* any(ing in ' '.join(usable_ings) for ing in [...])
StirFryMatches(usable_ings) ==
    \E k \in StirFryKeywords : Contains(Join(usable_ings, " "), k)

IsFresh(ing) == \E x \in FreshKeywords : Contains(ing, x)

\* fresh_ings = [ing for ing in usable_ings if any(x in ing for x in [...])]
FreshIngs(usable_ings) == SelectSeq(usable_ings, IsFresh)

SaladMatches(usable_ings) == Len(FreshIngs(usable_ings)) >= 2

PastaMatches(usable_ings) ==
    \E k \in PastaKeywords : Contains(Join(usable_ings, " "), k)

IsPastaOrNoodle(ing) == Contains(ing, "pasta") \/ Contains(ing, "noodle")

StirFry(usable_ings) ==
    Recipe("Quick Stir Fry",
           Take(usable_ings, 4) \o <<"soy sauce", "cooking oil", "garlic">>,
           <<"Heat oil in a pan and saute garlic until fragrant",
             "Add main ingredients and stir fry for 5-7 minutes",
             "Add soy sauce and any seasonings, cook for 2 more minutes">>,
           "15 mins", "Easy")

Salad(usable_ings) ==
    Recipe("Fresh Salad",
           FreshIngs(usable_ings) \o <<"olive oil", "vinegar or lemon juice", "salt", "pepper">>,
           <<"Wash and chop all vegetables",
             "Mix with olive oil and vinegar/lemon juice",
             "Season with salt and pepper to taste">>,
           "10 mins", "Very Easy")

Pasta(usable_ings) ==
    Recipe("Simple Pasta",
           SelectSeq(usable_ings, IsPastaOrNoodle) \o <<"oil", "garlic", "herbs">>
               \o Take(usable_ings, 2),
           <<"Cook pasta according to package instructions",
             "Saute other ingredients in oil with garlic",
             "Combine with cooked pasta and season">>,
           "20 mins", "Easy")

General(usable_ings) ==
    Recipe("Simple Cooked Dish",
           Take(usable_ings, 5) \o <<"oil", "salt", "pepper">>,
           <<"Prepare and chop all ingredients",
             "Cook in oil until tender and flavorful",
             "Season with salt and pepper, serve hot">>,
           "20 mins", "Easy")

\* The three specific templates, appended in the code's order.
SpecificFallbacks(usable_ings) ==
    (IF StirFryMatches(usable_ings) THEN <<StirFry(usable_ings)>> ELSE <<>>)
    \o (IF SaladMatches(usable_ings) THEN <<Salad(usable_ings)>> ELSE <<>>)
    \o (IF PastaMatches(usable_ings) THEN <<Pasta(usable_ings)>> ELSE <<>>)

\* The general recipe added without looking at the templates already chosen.
GeneralApplies_IgnoresMatches(fallbacks, usable_ings) == Len(usable_ings) >= 3

\* if not fallbacks and len(usable_ings) >= 3
GeneralApplies(fallbacks, usable_ings) == fallbacks = <<>> /\ Len(usable_ings) >= 3

GetFallbackRecipes(ings) ==
    LET usable_ings == UsableIngs(ings)
        specific == SpecificFallbacks(usable_ings)
        fallbacks == IF GeneralApplies(specific, usable_ings)
                     THEN Append(specific, General(usable_ings))
                     ELSE specific
    IN  PyList(Take(fallbacks, 3))

---------------------------------------------------------------------------
(* The generative-AI service.  A call of model.generate_content either     *)
(* returns a response or raises; a response either has a text or raises    *)
(* when its text is read (a blocked response).  The texts cover the ways   *)
(* the parser can go: bare JSON, fenced JSON, JSON inside prose, objects   *)
(* with an empty, null or missing "recipes" entry, JSON that is no object, *)
(* and text with no JSON in it.                                            *)

None == [kind |-> "None", text |-> ""]

TextResponse(text) == [kind |-> "text", text |-> text]

BlockedResponse == [kind |-> "blocked", text |-> ""]

SoupJson == "{\"recipes\": [{\"name\": \"Soup\", \"ingredients\": [\"Rice\", \"water\"]}]}"

ResponseTexts ==
    { SoupJson,
      Fence \o "json\n" \o SoupJson \o "\n" \o Fence,
      "Here you go:\n" \o Fence \o "json\n" \o SoupJson \o "\n" \o Fence,
      "Here are your recipes: " \o SoupJson \o " Enjoy!",
      "{\"recipes\": []}",
      "{\"recipes\": null}",
      "{\"meals\": [{\"name\": \"Soup\"}]}",
      "[{\"name\": \"Soup\"}]",
      "Sorry: {\"recipes\": []}",
      "Sorry: {\"meals\": []}",
      "Use {braces} wisely",
      "I cannot help with that.",
      "} {",
      "" }

Responses == {TextResponse(t) : t \in ResponseTexts} \cup {BlockedResponse}

ErrorMsgs ==
    { "429 Quota exceeded", "Rate Limit reached", "ratelimit: slow down",
      "500 internal error" }

Returns(r) == [ok |-> TRUE, response |-> r, error_msg |-> ""]

Raises(msg) == [ok |-> FALSE, response |-> None, error_msg |-> msg]

Outcomes == {Returns(r) : r \in Responses} \cup {Raises(m) : m \in ErrorMsgs}

---------------------------------------------------------------------------
(* safe_ai_request                                                         *)

DefaultMaxRetries == 2

Message(widget, text, n) == [widget |-> widget, text |-> text, n |-> n]

\* The test without .lower(): a message is matched in lower case only.
IsRateLimit_CaseSensitive(error_msg) ==
    Contains(error_msg, "quota") \/ Contains(error_msg, "rate limit")

\* "quota" in error_msg.lower() or "rate limit" in error_msg.lower()
IsRateLimit(error_msg) ==
    Contains(Lower(error_msg), "quota") \/ Contains(Lower(error_msg), "rate limit")

\* wait_time = (attempt + 1) * 3
WaitTime(attempt) == (attempt + 1) * 3

\* The frame on entry: attempt is the index the for loop hands out next.
NewRequest(max_retries) ==
    [max_retries |-> max_retries, attempt |-> 0, calls |-> 0, sleeps |-> <<>>,
     messages |-> <<>>, error_msg |-> "", returned |-> FALSE, response |-> None]

\* time.sleep(1) before every attempt but the first.
PreSleep(r) == IF r.attempt > 0 THEN Append(r.sleeps, 1) ELSE r.sleeps

\* except Exception as e: the rate-limit branch waits and continues, the other
\* branch reports and returns None.
OnException(r, error_msg) ==
    IF IsRateLimit(error_msg)
    THEN [r EXCEPT !.error_msg = error_msg,
                   !.messages = Append(@, Message("warning", "Rate limit hit. Waiting",
                                                  WaitTime(r.attempt))),
                   !.sleeps = Append(@, WaitTime(r.attempt)),
                   !.attempt = @ + 1]
    ELSE [r EXCEPT !.error_msg = error_msg,
                   !.messages = Append(@, Message("error", "API Error: " \o error_msg, 0)),
                   !.returned = TRUE,
                   !.response = None]

\* One pass of the loop body with the service's outcome for this call.
Iteration(r, outcome) ==
    LET r1 == [r EXCEPT !.sleeps = PreSleep(r), !.calls = @ + 1]
    IN  IF outcome.ok
        THEN [r1 EXCEPT !.returned = TRUE, !.response = outcome.response]
        ELSE OnException(r1, outcome.error_msg)

\* A loop that runs once more than max_retries.
LoopContinues_OffByOne(r) == r.attempt <= r.max_retries

\* range(max_retries) has another index to hand out.
LoopContinues(r) == r.attempt < r.max_retries

\* The return None after the loop.
LoopExit(r) == [r EXCEPT !.returned = TRUE, !.response = None]

---------------------------------------------------------------------------
(* get_smart_recipes, from the return of safe_ai_request on.  The result   *)
(* holds the returned value, the return statement that produced it         *)
(* (site), the st.error shown by the outer handler, and which parsers ran. *)

Result(value, site, json_loads, searched, messages) ==
    [value |-> value, site |-> site, json_loads |-> json_loads,
     searched |-> searched, messages |-> messages]

NoResult == Result(PyNone, "none", 0, FALSE, <<>>)

\* data.get("recipes", default); a value without .get raises AttributeError.
HasGet(data) == data.t = "dict"

DictGet(data, key, default) == IF key \in DOMAIN data.v THEN data.v[key] ELSE default

\* response_text = re.sub(..., '', response.text.strip())
CleanText(text) == RemoveFences(Strip(text), 1)

\* except Exception as e: st.error(...); return get_fallback_recipes(...)
OuterHandler(ings, json_loads, what) ==
    Result(GetFallbackRecipes(ings), "handler", json_loads, FALSE,
           <<Message("error", "Recipe generation failed: " \o what, 0)>>)

\* try: data = json.loads(response_text) succeeded.
DirectParse(ings, data) ==
    IF ~HasGet(data)
    THEN OuterHandler(ings, 1, "AttributeError")
    ELSE LET got == DictGet(data, "recipes", PyList(<<>>))
         IN  IF Truthy(got)
             THEN Result(got, "direct", 1, FALSE, <<>>)
             ELSE Result(GetFallbackRecipes(ings), "direct_empty", 1, FALSE, <<>>)

\* except json.JSONDecodeError: the regex extraction.
Extraction(ings, response_text) ==
    LET json_match == JsonMatch(response_text)
        data == JsonLoads(json_match.group)
    IN  IF ~json_match.found
        THEN Result(GetFallbackRecipes(ings), "no_match", 1, TRUE, <<>>)
        ELSE IF ~data.ok \/ ~HasGet(data.val)
        THEN Result(GetFallbackRecipes(ings), "extract_failed", 2, TRUE, <<>>)
        ELSE Result(DictGet(data.val, "recipes", GetFallbackRecipes(ings)),
                    IF "recipes" \in DOMAIN data.val.v THEN "extracted" ELSE "extract_default",
                    2, TRUE, <<>>)

\* A function that gives up with an empty list when there is no response.
GetSmartRecipes_EmptyOnNone(ings, response) ==
    IF response.kind = "None"
    THEN Result(PyList(<<>>), "no_response", 0, FALSE, <<>>)
    ELSE IF response.kind = "blocked"
    THEN OuterHandler(ings, 0, "ValueError")
    ELSE LET response_text == CleanText(response.text)
             data == JsonLoads(response_text)
         IN  IF data.ok THEN DirectParse(ings, data.val)
             ELSE Extraction(ings, response_text)

GetSmartRecipes(ings, response) ==
    IF response.kind = "None"
    THEN Result(GetFallbackRecipes(ings), "no_response", 0, FALSE, <<>>)
    ELSE IF response.kind = "blocked"
    THEN OuterHandler(ings, 0, "ValueError")
    ELSE LET response_text == CleanText(response.text)
             data == JsonLoads(response_text)
         IN  IF data.ok THEN DirectParse(ings, data.val)
             ELSE Extraction(ings, response_text)

---------------------------------------------------------------------------
(* main: one run of the script per widget event.                           *)

Envs ==
    { [api_key |-> "", configure_raises |-> FALSE],
      [api_key |-> "key", configure_raises |-> FALSE],
      [api_key |-> "key", configure_raises |-> TRUE] }

\* setup_gemini: the model object (or None) and what it shows.
SetupGemini(e) ==
    IF e.api_key = "" THEN [model |-> "None", shown |-> {"api_key_missing"}]
    ELSE IF e.configure_raises THEN [model |-> "None", shown |-> {"setup_failed"}]
    ELSE [model |-> "GenerativeModel", shown |-> {}]

\* The quick examples of the sidebar.
Examples ==
    ("Chicken Dinner" :> "chicken, rice, broccoli, garlic, soy sauce, onion, carrot")
    @@ ("Pasta Night" :> "pasta, tomato, basil, garlic, olive oil, cheese, onion")
    @@ ("Breakfast" :> "eggs, flour, milk, butter, sugar, baking powder")
    @@ ("Vegetarian" :> "potato, onion, bell pepper, beans, rice, spices")

\* What the user may have typed into the text area.
TypedTexts ==
    { "", "   ", "a,b", " a,b \n", "eggs", "Tofu, Rice ,, red onion,NOODLES" }

\* hasattr(st.session_state, 'search_clicked') and st.session_state.search_clicked
SearchClicked(ss) == "search_clicked" \in DOMAIN ss /\ ss["search_clicked"]

\* st.session_state.search_clicked = True; st.session_state.ingredients = text
Store(ss, text) ==
    [k \in DOMAIN ss \cup {"search_clicked", "ingredients"} |->
        IF k = "search_clicked" THEN TRUE
        ELSE IF k = "ingredients" THEN text
        ELSE ss[k]]

\* The length test on the raw input.
FindAccepts_NoStrip(input) == input # "" /\ Len(input) > 3

\* ingredients_input and len(ingredients_input.strip()) > 3
FindAccepts(input) == input # "" /\ Len(Strip(input)) > 3

\* A button that drops the search when the input is refused.
FindButton_ResetsOnInvalid(ss, input) ==
    IF FindAccepts(input)
    THEN [ss |-> Store(ss, input), sidebar |-> {}]
    ELSE [ss |-> [k \in DOMAIN ss |-> IF k = "search_clicked" THEN FALSE ELSE ss[k]],
          sidebar |-> {"warning"}]

\* The body of the Find Recipes! button.
FindButton(ss, input) ==
    IF FindAccepts(input)
    THEN [ss |-> Store(ss, input), sidebar |-> {}]
    ELSE [ss |-> ss, sidebar |-> {"warning"}]

\* The body of a quick-example button, before its st.rerun().
ExampleButton(ss, name) == Store(ss, Examples[name])

StripLower(ing) == Lower(Strip(ing))

IsNonBlank(ing) == Strip(ing) # ""

\* [ing.strip().lower() for ing in ingredients_text.split(',') if ing.strip()]
ParseIngredients(ingredients_text) ==
    LET kept == SelectSeq(Split(ingredients_text, ","), IsNonBlank)
    IN  [i \in 1..Len(kept) |-> StripLower(kept[i])]

\* if use_ai and model
CallsAI(ai, m) == ai /\ m # "None"

\* What the main panel shows before any recipe is asked for.
PanelBefore(clicked, ai, m) ==
    IF ~clicked THEN {"welcome"}
    ELSE IF CallsAI(ai, m) THEN {"found"}
    ELSE IF ~ai THEN {"found", "info"}
    ELSE {"found"}

\* if recipes: (the recipe cards) else: st.error("Could not generate recipes ...")
\* The "recipes" entries of the modelled responses are lists of recipe objects
\* (or null), which the loop over the cards renders without raising.
PanelAfter(value) == IF Truthy(value) THEN {"recipes"} ELSE {"error"}

IdleRequest == [NewRequest(0) EXCEPT !.returned = TRUE]

\* A run of the script in which button b returned True ("none": no button), with
\* the widget values text and ai.
RunScript(b, text, ai) ==
    LET setup == IF model = "uncached" THEN SetupGemini(env)
                 ELSE [model |-> model, shown |-> {}]
        find == IF b = "find" THEN FindButton(session_state, text)
                ELSE [ss |-> session_state, sidebar |-> {}]
        rerun == b \in DOMAIN Examples
        ss1 == IF rerun THEN ExampleButton(session_state, b) ELSE find.ss
        clicked == SearchClicked(ss1)
    IN  /\ model' = setup.model
        /\ ingredients_input' = text
        /\ use_ai' = ai
        /\ button' = b
        /\ session_state' = ss1
        /\ sidebar' = find.sidebar
        /\ recipes' = NoResult
        /\ UNCHANGED env
        /\ IF rerun
           THEN /\ panel' = setup.shown
                /\ ingredients_list' = <<>>
                /\ req' = IdleRequest
                /\ pc' = "scheduled"
           ELSE /\ panel' = setup.shown \cup PanelBefore(clicked, ai, setup.model)
                /\ ingredients_list' = IF clicked THEN ParseIngredients(ss1["ingredients"])
                                       ELSE <<>>
                /\ IF clicked /\ CallsAI(ai, setup.model)
                   THEN req' = NewRequest(DefaultMaxRetries) /\ pc' = "request"
                   ELSE req' = IdleRequest /\ pc' = "idle"

\* The first run of a session, and the run st.rerun() asks for.
Rerun == pc = "scheduled" /\ RunScript("none", ingredients_input, use_ai)

EditText ==
    /\ pc = "idle"
    /\ \E text \in TypedTexts \ {ingredients_input} : RunScript("none", text, use_ai)

ToggleAI == pc = "idle" /\ RunScript("none", ingredients_input, ~use_ai)

PressFind == pc = "idle" /\ RunScript("find", ingredients_input, use_ai)

PressExample ==
    /\ pc = "idle"
    /\ \E name \in DOMAIN Examples : RunScript(name, ingredients_input, use_ai)

\* One pass of safe_ai_request's loop: the call of generate_content and what
\* follows it.
RequestAttempt ==
    /\ pc = "request"
    /\ ~req.returned
    /\ LoopContinues(req)
    /\ \E outcome \in Outcomes : req' = Iteration(req, outcome)
    /\ UNCHANGED <<env, model, session_state, ingredients_input, use_ai, pc, button,
                   sidebar, panel, ingredients_list, recipes>>

\* The loop has run out of attempts.
RequestExhausted ==
    /\ pc = "request"
    /\ ~req.returned
    /\ ~LoopContinues(req)
    /\ req' = LoopExit(req)
    /\ UNCHANGED <<env, model, session_state, ingredients_input, use_ai, pc, button,
                   sidebar, panel, ingredients_list, recipes>>

\* The rest of get_smart_recipes and of main after safe_ai_request returned.
FinishRun ==
    /\ pc = "request"
    /\ req.returned
    /\ recipes' = GetSmartRecipes(ingredients_list, req.response)
    /\ panel' = panel \cup PanelAfter(recipes'.value)
    /\ pc' = "idle"
    /\ UNCHANGED <<env, model, session_state, ingredients_input, use_ai, button,
                   sidebar, ingredients_list, req>>

Init ==
    /\ env \in Envs
    /\ model = "uncached"
    /\ session_state = <<>>
    /\ ingredients_input = ""
    /\ use_ai = TRUE
    /\ pc = "scheduled"
    /\ button = "none"
    /\ sidebar = {}
    /\ panel = {}
    /\ ingredients_list = <<>>
    /\ req = IdleRequest
    /\ recipes = NoResult

Next ==
    \/ Rerun
    \/ EditText
    \/ ToggleAI
    \/ PressFind
    \/ PressExample
    \/ RequestAttempt
    \/ RequestExhausted
    \/ FinishRun

Spec == Init /\ [][Next]_vars

---------------------------------------------------------------------------
(* safe_ai_request on its own, for every max_retries up to a bound.        *)

MaxRetriesBound == 3

InitRetry ==
    /\ env = [api_key |-> "key", configure_raises |-> FALSE]
    /\ model = "GenerativeModel"
    /\ session_state = <<>>
    /\ ingredients_input = ""
    /\ use_ai = TRUE
    /\ pc = "request"
    /\ button = "none"
    /\ sidebar = {}
    /\ panel = {}
    /\ ingredients_list = <<>>
    /\ \E max_retries \in 0..MaxRetriesBound : req = NewRequest(max_retries)
    /\ recipes = NoResult

NextRetry == RequestAttempt \/ RequestExhausted

SpecRetry == InitRetry /\ [][NextRetry]_vars

\* A call of generate_content returns or raises, and a sleep ends: the loop is
\* never stuck between two of its steps.
SpecRetryFair == SpecRetry /\ WF_vars(NextRetry)

---------------------------------------------------------------------------
(* get_fallback_recipes on its own, for every list of up to MaxIngs        *)
(* ingredients of a vocabulary.                                            *)

MaxIngs == 5

Vocab == {"tofu", "ox", "egg", "red onion", "tomato", "noodles"}

IngredientLists == UNION {[1..n -> Vocab] : n \in 0..MaxIngs}

InitFallback ==
    /\ env = [api_key |-> "key", configure_raises |-> FALSE]
    /\ model = "uncached"
    /\ session_state = <<>>
    /\ ingredients_input = ""
    /\ use_ai = TRUE
    /\ pc = "fallback"
    /\ button = "none"
    /\ sidebar = {}
    /\ panel = {}
    /\ ingredients_list \in IngredientLists
    /\ req = IdleRequest
    /\ recipes = NoResult

FallbackCall ==
    /\ pc = "fallback"
    /\ recipes' = Result(GetFallbackRecipes(ingredients_list), "fallback", 0, FALSE, <<>>)
    /\ pc' = "returned"
    /\ UNCHANGED <<env, model, session_state, ingredients_input, use_ai, button,
                   sidebar, panel, ingredients_list, req>>

NextFallback == FallbackCall

SpecFallback == InitFallback /\ [][NextFallback]_vars

---------------------------------------------------------------------------
(* Claims about safe_ai_request (SpecRetry, SpecRetryFair).                *)

AllWarnings(messages) == \A i \in 1..Len(messages) : messages[i].widget = "warning"

\* C3: safe_ai_request always terminates, after at most max_retries calls of
\* generate_content; a returned response is that of the first call that did not
\* raise (every call before it hit the rate limit, and no call follows it), and
\* None is returned once max_retries attempts have all hit the rate limit.
C3_TerminatesWithinMaxRetries ==
    /\ [](req.calls <= req.max_retries)
    /\ []((req.returned /\ req.response.kind # "None") =>
             /\ req.calls = req.attempt + 1
             /\ Len(req.messages) = req.attempt
             /\ AllWarnings(req.messages))
    /\ []((req.returned /\ req.attempt >= req.max_retries) =>
             /\ req.response.kind = "None"
             /\ req.calls = req.max_retries
             /\ AllWarnings(req.messages))
    /\ [][req.returned => req' = req]_vars
    /\ <>(req.returned)

\* A response returned by the second call, after one rate-limit failure.
C3_Witness ==
    /\ pc = "request"
    /\ req.returned
    /\ req.response.kind = "text"
    /\ req.calls = 2
    /\ req.attempt = 1

\* The step is a call of generate_content that raised.
CallRaised == req'.calls = req.calls + 1 /\ ~(req'.returned /\ req'.response.kind # "None")

MentionsRateLimit(msg) ==
    Contains(Lower(msg), "quota") \/ Contains(Lower(msg), "rate limit")

\* C4: only rate-limit errors are retried. A raised message that contains
\* "quota" or "rate limit" in any letter case leads to a warning, a wait and the
\* loop's next index (the next attempt, while max_retries allows one); any other
\* message is shown as "API Error: ..." and the function returns None at once,
\* with no wait after the call.
C4_OnlyRateLimitRetried ==
    /\ [][CallRaised =>
            IF MentionsRateLimit(req'.error_msg)
            THEN /\ ~req'.returned
                 /\ req'.attempt = req.attempt + 1
                 /\ Len(req'.sleeps) = Len(PreSleep(req)) + 1
                 /\ Len(req'.messages) = Len(req.messages) + 1
                 /\ req'.messages[Len(req'.messages)].widget = "warning"
            ELSE /\ req'.returned
                 /\ req'.response.kind = "None"
                 /\ req'.sleeps = PreSleep(req)
                 /\ req'.messages =
                        Append(req.messages,
                               Message("error", "API Error: " \o req'.error_msg, 0))]_vars
    /\ []((~req.returned /\ req.attempt < req.max_retries) => ENABLED RequestAttempt)
    /\ [](req.returned => ~ENABLED RequestAttempt)

\* A rate-limit failure retried, then another error that ended the function.
C4_Witness ==
    /\ pc = "request"
    /\ req.returned
    /\ req.response.kind = "None"
    /\ req.calls = 2
    /\ req.sleeps = <<3, 1>>
    /\ req.error_msg = "ratelimit: slow down"

\* The sleeps the claim describes for a function that has made n calls: 3*k
\* seconds after the k-th failed attempt and 1 second before the next one,
\* for each attempt that another attempt follows.
RECURSIVE BackoffBetween(_)
BackoffBetween(n) ==
    IF n <= 1 THEN <<>> ELSE BackoffBetween(n - 1) \o <<3 * (n - 1), 1>>

\* C5: the backoff is linear: 3*k seconds after the k-th rate-limited attempt,
\* one more second before every attempt after the first, and a wait only when
\* another attempt follows it.
C5_WaitsOnlyBeforeAnotherAttempt ==
    req.returned => req.sleeps = BackoffBetween(req.calls)

---------------------------------------------------------------------------
(* Claims about get_fallback_recipes (SpecFallback).                       *)

\* The indices of the ingredients longer than 2 characters that contain one of
\* the keywords.
Matching(ings, keywords) ==
    {i \in 1..Len(ings) : Len(ings[i]) > 2 /\ \E k \in keywords : Contains(ings[i], k)}

UsableCount(ings) == Cardinality({i \in 1..Len(ings) : Len(ings[i]) > 2})

StirFryExpected(ings) == Matching(ings, StirFryKeywords) # {}

SaladExpected(ings) == Cardinality(Matching(ings, FreshKeywords)) >= 2

PastaExpected(ings) == Matching(ings, PastaKeywords) # {}

NoneExpected(ings) == ~StirFryExpected(ings) /\ ~SaladExpected(ings) /\ ~PastaExpected(ings)

\* The number of recipes of that name in a returned list.
Named(value, name) == Cardinality({i \in 1..Len(value.v) : value.v[i].v["name"].v = name})

\* C6: get_fallback_recipes returns at most 3 recipes; Quick Stir Fry, Fresh
\* Salad and Simple Pasta each appear (once) exactly when an ingredient longer
\* than 2 characters contains a stir-fry keyword, when two such ingredients
\* contain a fresh keyword, and when one contains a pasta keyword; Simple
\* Cooked Dish appears exactly when none of the three matched and at least 3
\* ingredients are longer than 2 characters, so never beside a specific recipe,
\* and the list is empty when nothing matches and fewer than 3 are usable.
C6_FallbackSelection ==
    pc = "returned" =>
        LET value == recipes.value
            ings == ingredients_list
        IN  /\ value.t = "list"
            /\ Len(value.v) <= 3
            /\ Named(value, "Quick Stir Fry") = (IF StirFryExpected(ings) THEN 1 ELSE 0)
            /\ Named(value, "Fresh Salad") = (IF SaladExpected(ings) THEN 1 ELSE 0)
            /\ Named(value, "Simple Pasta") = (IF PastaExpected(ings) THEN 1 ELSE 0)
            /\ Named(value, "Simple Cooked Dish") =
                   (IF NoneExpected(ings) /\ UsableCount(ings) >= 3 THEN 1 ELSE 0)
            /\ Len(value.v) = Named(value, "Quick Stir Fry") + Named(value, "Fresh Salad")
                              + Named(value, "Simple Pasta")
                              + Named(value, "Simple Cooked Dish")
            /\ Named(value, "Simple Cooked Dish") = 1 => Len(value.v) = 1
            /\ (NoneExpected(ings) /\ UsableCount(ings) < 3) => value.v = <<>>

\* All three specific templates returned for a list that also holds an
\* ingredient too short to count.
C6_Witness ==
    /\ pc = "returned"
    /\ recipes.site = "fallback"
    /\ Len(recipes.value.v) = 3
    /\ \E i \in 1..Len(ingredients_list) : Len(ingredients_list[i]) <= 2

---------------------------------------------------------------------------
(* Claims about get_smart_recipes (Spec).                                  *)

\* get_smart_recipes has returned in the current run.
Returned == recipes.site # "none"

Fallback == GetFallbackRecipes(ingredients_list)

\* C1: when safe_ai_request returned None, or reading the response's text
\* raises, get_smart_recipes returns exactly get_fallback_recipes of its
\* ingredients and runs neither json.loads nor the regex search.
C1_NoResponseGivesFallback ==
    (Returned /\ req.response.kind \in {"None", "blocked"}) =>
        /\ recipes.value = Fallback
        /\ recipes.json_loads = 0
        /\ ~recipes.searched

\* Both attempts hit the rate limit and the templates were returned.
C1_Witness ==
    /\ recipes.site = "no_response"
    /\ req.calls = 2
    /\ req.response.kind = "None"
    /\ Truthy(recipes.value)

\* The text from the first "{" to the last "}" ("" when there is none).
BraceSpan(text) ==
    LET i == IndexFrom(text, "{", 1)
        j == LastIndexFrom(text, "}", Len(text))
    IN  IF i > 0 /\ j > i THEN SubSeq(text, i, j) ELSE ""

\* C2: when the cleaned response text is not valid JSON, the regex search for
\* the span from the first "{" to the last "}" runs before any fallback: the
\* fallback result is returned when there is no span or the span does not
\* parse, and the recipes of the extracted object are returned when the span
\* parses and has a "recipes" key.
C2_ExtractionBeforeFallback ==
    (Returned /\ req.response.kind = "text"
        /\ ~JsonLoads(CleanText(req.response.text)).ok) =>
        LET data == JsonLoads(BraceSpan(CleanText(req.response.text)))
        IN  /\ recipes.searched
            /\ ~data.ok => recipes.value = Fallback
            /\ (data.ok /\ "recipes" \in DOMAIN data.val.v) =>
                   recipes.value = data.val.v["recipes"]

\* Recipes taken from an object found inside a longer text.
C2_Witness ==
    /\ recipes.site = "extracted"
    /\ recipes.searched
    /\ Truthy(recipes.value)
    /\ Truthy(Fallback)

\* The object the response parses to, directly or through the span.
ParsedObject(text) ==
    LET direct == JsonLoads(CleanText(text))
    IN  IF direct.ok THEN direct ELSE JsonLoads(BraceSpan(CleanText(text)))

\* C8: a value that get_smart_recipes takes from the model's response is a
\* non-empty list, and a response that parses to an object with an empty or
\* missing "recipes" entry yields the fallback result, on both parse paths.
C8_ResponseValuesNonEmpty ==
    (Returned /\ req.response.kind = "text") =>
        LET data == ParsedObject(req.response.text)
        IN  /\ recipes.site \in {"direct", "extracted"} =>
                   recipes.value.t = "list" /\ Len(recipes.value.v) > 0
            /\ (data.ok /\ data.val.t = "dict"
                  /\ ~Truthy(DictGet(data.val, "recipes", PyList(<<>>)))) =>
                   recipes.value = Fallback

---------------------------------------------------------------------------
(* Claims about main (Spec).                                               *)

\* The step starts a run of the script.
ScriptStarts == pc \in {"idle", "scheduled"}

\* More than 3 characters lie between the first and the last character that
\* is not whitespace.
LongInput(text) ==
    \E i \in 1..Len(text) : \E j \in (i + 3)..Len(text) :
        Ch(text, i) \notin Whitespace /\ Ch(text, j) \notin Whitespace

\* C7: search_clicked is set only by a button. Find Recipes! sets it and stores
\* the typed text when the text, stripped, is longer than 3 characters, and
\* otherwise warns and leaves the session state as it was; a quick-example
\* button always sets it and stores the example's ingredients; a run without a
\* button, and the rest of a run, leave the session state as it was.
C7_OnlyButtonsSetSearchClicked ==
    [][IF ScriptStarts
       THEN /\ button' = "find" =>
                   IF LongInput(ingredients_input')
                   THEN /\ SearchClicked(session_state')
                        /\ session_state'["ingredients"] = ingredients_input'
                        /\ "warning" \notin sidebar'
                   ELSE /\ "warning" \in sidebar'
                        /\ session_state' = session_state
            /\ button' \in DOMAIN Examples =>
                   /\ SearchClicked(session_state')
                   /\ session_state'["ingredients"] = Examples[button']
            /\ button' = "none" => session_state' = session_state
       ELSE session_state' = session_state]_vars

\* Find Recipes! refused a text that is long only with its surrounding
\* whitespace, after an earlier search.
C7_Witness ==
    /\ button = "find"
    /\ "warning" \in sidebar
    /\ Len(ingredients_input) > 3
    /\ SearchClicked(session_state)

Outcomes3 == {"recipes", "error", "info"}

\* C9: a finished run with search_clicked set shows exactly one of the recipe
\* list, the "Could not generate recipes" error and the "Enable AI Recipes"
\* info; and generate_content is called only with search_clicked set, the
\* toggle on and the model initialised.
C9_ExactlyOneOutcome ==
    /\ (pc = "idle" /\ SearchClicked(session_state)) =>
           Cardinality(panel \cap Outcomes3) = 1
    /\ req.calls > 0 =>
           SearchClicked(session_state) /\ use_ai /\ model = "GenerativeModel"

\* The step is a button press that stored ingredients.
StoringPress ==
    /\ ScriptStarts
    /\ \/ button' \in DOMAIN Examples
       \/ button' = "find" /\ "warning" \notin sidebar'

\* C10: once search_clicked is set it stays set; no later run shows the welcome
\* screen, the stored ingredients change only by a button press that stores,
\* and every later run works on the stored ingredients and, with the toggle on
\* and a model, asks the service again.
C10_SearchClickedStaysSet ==
    [][SearchClicked(session_state) =>
        /\ SearchClicked(session_state')
        /\ "welcome" \notin panel'
        /\ ~StoringPress => session_state'["ingredients"] = session_state["ingredients"]
        /\ pc' \in {"request", "idle"} =>
               ingredients_list' = ParseIngredients(session_state'["ingredients"])
        /\ (ScriptStarts /\ pc' # "scheduled" /\ use_ai' /\ model' = "GenerativeModel") =>
               pc' = "request" /\ req'.calls = 0 /\ ~req'.returned]_vars

\* Find Recipes! pressed with an empty text area after a search: the recipes of
\* the stored ingredients are shown again.
C10_Witness ==
    /\ pc = "idle"
    /\ button = "find"
    /\ ingredients_input = ""
    /\ "warning" \in sidebar
    /\ "recipes" \in panel
    /\ SearchClicked(session_state)

===========================================================================
